---- MODULE Spec2Model ----
(***************************************************************************)
(* A model of the hybrid question-answering agent: the stage graph of      *)
(* agent/graph_hybrid.py with its repair loop and confidence score, the    *)
(* retriever of agent/rag/retrieval.py, the completion normalizer of       *)
(* agent/dspy_signatures.py and the batch driver of run_agent_hybrid.py.   *)
(*                                                                         *)
(* A text is a sequence of atoms.  An atom is a string standing for one    *)
(* lexical unit of the text (a word, a keyword, a blank, a newline, a      *)
(* marker); exception messages are built from one-character atoms, so      *)
(* that slicing them by characters is slicing the sequence.                *)
(***************************************************************************)
EXTENDS Integers, Sequences, FiniteSets, TLC

VARIABLES
    env,       \* which outcomes the collaborators (completion service, store) can produce
    pc,        \* pipeline: the node the graph runs next, "END", "returned", "raised", "idle"
    state,     \* pipeline: the AgentState record
    trace,     \* pipeline: history, one entry per node run, in order
    emptyRun,  \* pipeline: history, every nl2sql call so far returned an empty sql
               \* field and no synth call raised
    final,     \* pipeline: the record run_hybrid_agent returns
    conf,      \* compute_confidence: the state scored and the score
    retr,      \* retrieve: the scored corpus, k and the chunks returned
    norm,      \* basic_request: the completion text and the normalizer's result
    tool,      \* run_sql: the query, what the store did with it, and the result
    driver     \* run_agent_hybrid.main: the batch, the loop position, the outputs

pipeVars == <<pc, state, trace, emptyRun, final>>

\* the state of the pure functions checked on their own
pureVars == <<conf, retr, norm, tool>>

vars == <<env, pipeVars, pureVars, driver>>

(***************************************************************************)
(* Texts and optional texts                                                *)
(***************************************************************************)
Min(a, b) == IF a <= b THEN a ELSE b

Max(a, b) == IF a >= b THEN a ELSE b

\* s[:n] for n >= 0
Take(s, n) == SubSeq(s, 1, Min(n, Len(s)))

\* the atoms str.strip() removes
IsSpace(a) == a \in {" ", "\n"}

RECURSIVE LStrip(_)
LStrip(s) == IF s # <<>> /\ IsSpace(Head(s)) THEN LStrip(Tail(s)) ELSE s

RECURSIVE RStrip(_)
RStrip(s) ==
    IF s # <<>> /\ IsSpace(s[Len(s)]) THEN RStrip(SubSeq(s, 1, Len(s) - 1)) ELSE s

\* str.strip()
Strip(s) == RStrip(LStrip(s))

\* str.lower() of one atom
LowerAtom(a) ==
    CASE a = "SQL" -> "sql"
      [] a = "RAG" -> "rag"
      [] a = "Hybrid" -> "hybrid"
      [] a = "SELECT" -> "select"
      [] a = "Select" -> "select"
      [] OTHER -> a

\* str.lower()
Lower(s) == [i \in 1..Len(s) |-> LowerAtom(s[i])]

\* Python's None and a text, as one type
None == [isNone |-> TRUE, text |-> <<>>]

Some(t) == [isNone |-> FALSE, text |-> t]

\* Python truthiness of an Optional[str]: None and "" are falsy
Truthy(o) == ~o.isNone /\ o.text # <<>>

\* an exception message of n characters
Msg(n) == [i \in 1..n |-> "x"]

\* the slice bound of str(e)[:100]
TruncLen == 100

\* str(e) of the exceptions a completion call raises: empty, short, longer than the slice
ExcMsgs == {Msg(0), Msg(1), Msg(TruncLen + 1)}

\* str(e) of the exceptions sqlite3 raises
StoreMsgs == {<<"no such table">>}

(***************************************************************************)
(* Retrieval: LocalDocRetriever.retrieve                                   *)
(***************************************************************************)
\* a chunk: its position in self.chunks and its two scores, in integer units
Chunk(i, bm, tf) == [id |-> i, bm25 |-> bm, tfidf |-> tf]

\* combined = 0.7 * bm25_scores + 0.3 * tfidf_scores, in tenths of a unit
Combined(c) == 7 * c.bm25 + 3 * c.tfidf

\* the permutations of 1..n
Perms(n) == {p \in [1..n -> 1..n] : \A i, j \in 1..n : i # j => p[i] # p[j]}

\* combined.argsort(): an ascending order of the indices; numpy's default sort is
\* not stable, so the order of equal scores is any
ArgSorts(corpus) ==
    {p \in Perms(Len(corpus)) :
        \A i \in 1..(Len(corpus) - 1) :
            Combined(corpus[p[i]]) <= Combined(corpus[p[i + 1]])}

\* seq[::-1]
Reversed(s) == [i \in 1..Len(s) |-> s[Len(s) + 1 - i]]

\* seq[:k], with Python's reading of a negative k
SliceTo(s, k) ==
    IF k >= 0 THEN Take(s, k) ELSE Take(s, Max(Len(s) + k, 0))

\* retrieve without the reversal of the ascending order
retrieve_noreverse(corpus, order, k) ==
    LET top_idx == SliceTo(order, k)
    IN  [i \in 1..Len(top_idx) |->
            [id |-> corpus[top_idx[i]].id, score |-> Combined(corpus[top_idx[i]])]]

\* retrieve(query, k) over a scored corpus, given the order argsort produced; of a
\* result's fields, id and score are kept (text and source follow from id)
retrieve(corpus, order, k) ==
    LET top_idx == SliceTo(Reversed(order), k)
    IN  [i \in 1..Len(top_idx) |->
            [id |-> corpus[top_idx[i]].id, score |-> Combined(corpus[top_idx[i]])]]

(***************************************************************************)
(* The pipeline: AgentState and the nodes of graph_hybrid.py               *)
(***************************************************************************)
\* the k of node_retrieve
RetrieveK == 6

\* the repair cap of should_repair
RepairCap == 2

\* the repair cap of node_validate_or_repair
RepairNodeCap == 2

\* the corpora a run may be started on
PipeCorpora == {<<>>, <<Chunk(1, 1, 0), Chunk(2, 1, 0)>>}

\* what the router's completion returns as out.route
RouteOutputs ==
    {<<>>, <<" ", "SQL", "\n">>, <<"Hybrid">>, <<"sql", " ", "query">>}

\* what nl2sql's completion returns as sql_out.sql
SqlOutputs ==
    {<<>>, <<" ">>, <<" ", "SELECT", " ", "x", " ", "FROM", " ", "t", "\n">>,
     <<"DROP", " ", "t">>}

\* what synth's completion returns
SynthOutputs ==
    {[final_answer |-> <<"42">>, explanation |-> <<"because">>, citations |-> <<"Orders">>]}

\* inputs of run_hybrid_agent
InitialState ==
    [question |-> <<"q">>, format_hint |-> <<"text">>, route |-> <<>>,
     retrieved_docs |-> <<>>, plan |-> "{}", sql |-> <<>>,
     sql_result |-> [kind |-> "empty"], rows |-> <<>>, columns |-> <<>>,
     tables_used |-> {}, error |-> None, citations |-> <<>>,
     final_answer |-> <<>>, explanation |-> <<>>, repairs |-> 0]

\* node_router; o is the outcome of router(question=q)
node_router(s, o) ==
    IF o.kind = "raise"
    THEN [s EXCEPT !.route = <<"hybrid">>,
                   !.error = Some(<<"Router failed: ">> \o Take(o.msg, TruncLen))]
    ELSE LET route == IF o.kind = "missing" THEN <<"hybrid">> ELSE o.route
         IN  IF route # <<>>
             THEN [s EXCEPT !.route = Lower(Strip(route))]
             ELSE [s EXCEPT !.route = <<"hybrid">>]

\* node_retrieve; docs is what retriever.retrieve(q, k=6) returned
node_retrieve(s, docs) == [s EXCEPT !.retrieved_docs = docs]

\* node_planner, when planner(...) returns; a raise leaves the node unfinished
node_planner(s, o) == [s EXCEPT !.plan = o.plan]

\* node_sqlgen without the guard on an empty sql field
node_sqlgen_noguard(s, o) ==
    CASE o.kind = "raise" ->
            [s EXCEPT !.sql = <<>>,
                      !.sql_result = [kind |-> "error",
                                      error |-> <<"NL2SQL call failed: ">> \o o.msg],
                      !.error = Some(o.msg)]
      [] o.kind = "none" ->
            [s EXCEPT !.sql = <<>>,
                      !.sql_result = [kind |-> "error",
                                      error |-> <<"NL2SQL produced no output">>],
                      !.error = Some(<<"NL2SQL produced no output">>)]
      [] OTHER -> [s EXCEPT !.sql = Strip(o.sql.text)]

\* node_sqlgen; o is the outcome of nl2sql(...)
node_sqlgen(s, o) ==
    CASE o.kind = "raise" ->
            [s EXCEPT !.sql = <<>>,
                      !.sql_result = [kind |-> "error",
                                      error |-> <<"NL2SQL call failed: ">> \o o.msg],
                      !.error = Some(o.msg)]
      [] o.kind = "none" ->
            [s EXCEPT !.sql = <<>>,
                      !.sql_result = [kind |-> "error",
                                      error |-> <<"NL2SQL produced no output">>],
                      !.error = Some(<<"NL2SQL produced no output">>)]
      [] o.kind = "out" /\ (o.sql.isNone \/ o.sql.text = <<>>) ->
            [s EXCEPT !.sql = <<>>,
                      !.sql_result = [kind |-> "error",
                                      error |-> <<"NL2SQL returned empty SQL">>],
                      !.error = Some(<<"NL2SQL returned empty SQL">>)]
      [] OTHER -> [s EXCEPT !.sql = Strip(o.sql.text)]

\* an atom the pattern's (?:FROM|JOIN) matches, case ignored
IsFromJoin(a) == a \in {"FROM", "from", "JOIN", "join"}

\* an atom matching [A-Za-z_][A-Za-z0-9_]*
IsWord(a) ==
    a \in {"SELECT", "Select", "select", "FROM", "from", "JOIN", "join", "LIMIT",
           "DROP", "x", "t", "u", "Products", "ProductName"}

\* an atom of the class [A-Za-z0-9_ ]
IsTableChar(a) == IsWord(a) \/ a \in {"1", " "}

\* the first index >= i of q holding an atom that is not white space, or Len(q) + 1
RECURSIVE SkipSpace(_, _)
SkipSpace(q, i) ==
    IF i <= Len(q) /\ IsSpace(q[i]) THEN SkipSpace(q, i + 1) ELSE i

\* the last index of the run of [A-Za-z0-9_ ] atoms that starts at i
RECURSIVE TableEnd(_, _)
TableEnd(q, i) ==
    IF i < Len(q) /\ IsTableChar(q[i + 1]) THEN TableEnd(q, i + 1) ELSE i

\* re.findall of (?:FROM|JOIN)\s+([A-Za-z_][A-Za-z0-9_ ]*) from index i on, each
\* capture stripped
RECURSIVE FindTables(_, _)
FindTables(q, i) ==
    IF i > Len(q)
    THEN {}
    ELSE LET j == SkipSpace(q, i + 1)
         IN  IF IsFromJoin(q[i]) /\ j > i + 1 /\ j <= Len(q) /\ IsWord(q[j])
             THEN {Strip(SubSeq(q, j, TableEnd(q, j)))}
                      \cup FindTables(q, TableEnd(q, j) + 1)
             ELSE FindTables(q, i + 1)

\* SQLiteTool.extract_tables_used
extract_tables_used(query) == FindTables(query, 1)

(***************************************************************************)
(* The completion normalizer: OllamaDSPyWrapper.basic_request, from the    *)
(* text of the response on.  The result of json.loads / ast.literal_eval   *)
(* on the text is an input (parsed), as the parsers are library code.  The *)
(* atom <fence> stands for a triple backtick.                              *)
(***************************************************************************)
\* the atom standing for the marker [[ ## <field> ## ]]
MarkerAtom(field) ==
    CASE field = "final_answer" -> "[[ ## final_answer ## ]]"
      [] field = "explanation" -> "[[ ## explanation ## ]]"
      [] field = "citations" -> "[[ ## citations ## ]]"
      [] field = "sql" -> "[[ ## sql ## ]]"

\* the atoms whose first character is "["
StartsBracket(a) ==
    a \in {"[", "[[ ## final_answer ## ]]", "[[ ## explanation ## ]]",
           "[[ ## citations ## ]]", "[[ ## sql ## ]]"}

\* the first index of t holding an atom of S, or 0
RECURSIVE FirstFrom(_, _, _)
FirstFrom(t, S, i) ==
    IF i > Len(t) THEN 0 ELSE IF t[i] \in S THEN i ELSE FirstFrom(t, S, i + 1)

FirstIn(t, S) == FirstFrom(t, S, 1)

\* the last index of t holding an atom of S, or 0
RECURSIVE LastFrom(_, _, _)
LastFrom(t, S, i) ==
    IF i < 1 THEN 0 ELSE IF t[i] \in S THEN i ELSE LastFrom(t, S, i - 1)

\* t[i:], i counted from 1
From(t, i) == SubSeq(t, i, Len(t))

\* the fence stripping of basic_request: the third part of the split at the
\* first two fences, cut at its last fence, stripped
StripFences(text) ==
    IF text # <<>> /\ text[1] = "<fence>" /\ FirstIn(Tail(text), {"<fence>"}) # 0
    THEN LET second == 1 + FirstIn(Tail(text), {"<fence>"})
             inner == From(text, second + 1)
             last == LastFrom(inner, {"<fence>"}, Len(inner))
         IN  Strip(IF last = 0 THEN inner ELSE SubSeq(inner, 1, last - 1))
    ELSE text

\* where the lazy group of extract_marker stops: before a newline followed by a
\* bracket, or at the end
RECURSIVE MarkerStop(_, _)
MarkerStop(t, p) ==
    IF p > Len(t) THEN p
    ELSE IF t[p] = "\n" /\ p < Len(t) /\ StartsBracket(t[p + 1]) THEN p
    ELSE MarkerStop(t, p + 1)

\* extract_marker cutting the value at the first newline
extract_marker_line(field, txt) ==
    LET i == FirstIn(txt, {MarkerAtom(field)})
        j == SkipSpace(txt, i + 1)
        nl == FirstFrom(txt, {"\n"}, j)
        e == IF nl = 0 THEN Len(txt) + 1 ELSE nl
    IN  IF i = 0 THEN None ELSE Some(Strip(SubSeq(txt, j, e - 1)))

\* extract_marker: the stripped text after the first marker of the field, or None
extract_marker(field, txt) ==
    LET i == FirstIn(txt, {MarkerAtom(field)})
        j == SkipSpace(txt, i + 1)
        e == MarkerStop(txt, j)
    IN  IF i = 0 THEN None ELSE Some(Strip(SubSeq(txt, j, e - 1)))

\* where the lazy group of a heading pattern stops: at the end (or the newline
\* ending the text), before a blank line, before a newline followed by a bracket
RECURSIVE HeadingStop(_, _)
HeadingStop(t, p) ==
    IF p > Len(t) THEN p
    ELSE IF t[p] = "\n" /\ (p = Len(t) \/ t[p + 1] = "\n" \/ StartsBracket(t[p + 1]))
    THEN p
    ELSE HeadingStop(t, p + 1)

\* re.search of the Final Answer heading pattern: group(1).strip(), or None
FinalAnswerHeading(txt) ==
    LET i == FirstIn(txt, {"Final Answer:"})
        j == SkipSpace(txt, i + 1)
    IN  IF i = 0 THEN None ELSE Some(Strip(SubSeq(txt, j, HeadingStop(txt, j) - 1)))

\* re.search of the Explanation heading pattern, whose colon is optional: the
\* word is also found inside the explanation marker, and the capture then starts
\* at the closing part of that marker
ExplanationHeading(txt) ==
    LET i == FirstIn(txt, {"Explanation:", "[[ ## explanation ## ]]"})
        j == SkipSpace(txt, i + 1)
    IN  IF i = 0 THEN None
        ELSE IF txt[i] = "Explanation:"
        THEN Some(Strip(SubSeq(txt, j, HeadingStop(txt, j) - 1)))
        ELSE Some(Strip(<<"## ]]">> \o SubSeq(txt, i + 1, HeadingStop(txt, i + 1) - 1)))

\* re.split at newline, semicolon and comma, each piece stripped, the empty ones dropped
RECURSIVE SplitItems(_, _)
SplitItems(t, cur) ==
    IF t = <<>>
    THEN IF Strip(cur) = <<>> THEN <<>> ELSE <<Strip(cur)>>
    ELSE IF Head(t) \in {"\n", ";", ","}
    THEN (IF Strip(cur) = <<>> THEN <<>> ELSE <<Strip(cur)>>) \o SplitItems(Tail(t), <<>>)
    ELSE SplitItems(Tail(t), Append(cur, Head(t)))

\* re.search of the Citations heading pattern: the items of the capture, or None
CitationsHeading(txt) ==
    LET i == FirstIn(txt, {"Citations:"})
        j == SkipSpace(txt, i + 1)
        ctext == Strip(SubSeq(txt, j, HeadingStop(txt, j) - 1))
        items == SplitItems(ctext, <<>>)
    IN  IF i = 0 THEN None
        ELSE [isNone |-> FALSE, text |-> IF items # <<>> THEN items ELSE <<ctext>>]

\* the first token of text.strip().split(None, 1) is a query keyword
SqlLike(text) ==
    LET t == Strip(text)
    IN  /\ t # <<>>
        /\ t[1] \in {"SELECT", "Select", "select", "WITH", "INSERT", "UPDATE",
                     "DELETE", "CREATE"}
        /\ (Len(t) = 1 \/ IsSpace(t[2]))

\* the dict out with the key set when the optional value is there
WithKey(out, key, o) == IF o.isNone THEN out ELSE (key :> o.text) @@ out

\* the empty dict
EmptyDict == [k \in {} |-> <<>>]

\* the markers' step: a field is taken when its marker's value is not empty
MarkerFields(text) ==
    LET Val(f) == IF Truthy(extract_marker(f, text)) THEN extract_marker(f, text) ELSE None
    IN  WithKey(WithKey(WithKey(WithKey(EmptyDict,
            "final_answer", Val("final_answer")),
            "explanation", Val("explanation")),
            "citations", Val("citations")),
            "sql", Val("sql"))

\* the headings' step, for the fields the markers left out
HeadingFields(text, out) ==
    LET o1 == IF "final_answer" \in DOMAIN out THEN out
              ELSE WithKey(out, "final_answer", FinalAnswerHeading(text))
        o2 == IF "explanation" \in DOMAIN o1 THEN o1
              ELSE WithKey(o1, "explanation", ExplanationHeading(text))
        o3 == IF "citations" \in DOMAIN o2 THEN o2
              ELSE WithKey(o2, "citations", CitationsHeading(text))
    IN  o3

\* the content-sniffing step
SniffSql(text, out) ==
    IF SqlLike(text) /\ "sql" \notin DOMAIN out THEN ("sql" :> Strip(text)) @@ out ELSE out

\* the atom contains the word, case ignored
AtomHas(a, w) ==
    CASE w = "rag" -> a \in {"rag", "RAG"}
      [] w = "sql" -> a \in {"sql", "SQL", "[[ ## sql ## ]]"}
      [] w = "hybrid" -> a \in {"hybrid", "Hybrid"}
      [] w = "select" -> a \in {"select", "Select", "SELECT"}

\* w in str(v).lower()
TextHas(v, w) == \E i \in DOMAIN v : AtomHas(v[i], w)

\* the route the first candidate field names, if one does
RECURSIVE InferRoute(_, _)
InferRoute(m, keys) ==
    IF keys = <<>> THEN None
    ELSE IF Head(keys) \in DOMAIN m /\ \E w \in {"rag", "sql", "hybrid"} : TextHas(m[Head(keys)], w)
    THEN Some(IF TextHas(m[Head(keys)], "rag") THEN <<"rag">>
              ELSE IF TextHas(m[Head(keys)], "sql") THEN <<"sql">>
              ELSE <<"hybrid">>)
    ELSE InferRoute(m, Tail(keys))

\* the field reused as sql: the first of explanation, final_answer holding "select"
RECURSIVE InferSql(_, _)
InferSql(m, keys) ==
    IF keys = <<>> THEN None
    ELSE IF Head(keys) \in DOMAIN m /\ TextHas(m[Head(keys)], "select")
    THEN Some(m[Head(keys)])
    ELSE InferSql(m, Tail(keys))

\* the slice bound of text.strip()[:200]
AnswerLen == 200

\* the key with a default when the dict lacks it
Default(m, key, v) == IF key \in DOMAIN m THEN m ELSE (key :> v) @@ m

\* the defaults without the one of plan
Backfill_noplan(out, text) ==
    LET m1 == WithKey(out, "route", InferRoute(out, <<"explanation", "final_answer">>))
        m2 == IF "sql" \in DOMAIN m1 THEN m1
              ELSE WithKey(m1, "sql", InferSql(m1, <<"explanation", "final_answer">>))
        m3 == Default(m2, "final_answer",
                      IF "sql" \in DOMAIN m2 THEN m2["sql"]
                      ELSE IF "explanation" \in DOMAIN m2 THEN m2["explanation"]
                      ELSE Take(Strip(text), AnswerLen))
        m4 == Default(m3, "explanation", <<>>)
        m5 == Default(m4, "citations", <<>>)
        m6 == Default(m5, "route", <<"hybrid">>)
    IN  Default(m6, "sql", <<>>)

\* the defaults of the "if out:" branch; the slice is taken in atoms
Backfill(out, text) ==
    LET m1 == WithKey(out, "route", InferRoute(out, <<"explanation", "final_answer">>))
        m2 == IF "sql" \in DOMAIN m1 THEN m1
              ELSE WithKey(m1, "sql", InferSql(m1, <<"explanation", "final_answer">>))
        m3 == Default(m2, "final_answer",
                      IF "sql" \in DOMAIN m2 THEN m2["sql"]
                      ELSE IF "explanation" \in DOMAIN m2 THEN m2["explanation"]
                      ELSE Take(Strip(text), AnswerLen))
        m4 == Default(m3, "explanation", <<>>)
        m5 == Default(m4, "citations", <<>>)
        m6 == Default(m5, "route", <<"hybrid">>)
        m7 == Default(m6, "sql", <<>>)
    IN  Default(m7, "plan", "{}")

\* the fields that make a parsed dict the result
Wanted == {"final_answer", "explanation", "citations", "sql"}

\* the parsed dict accepted as the result, with its three defaults
AcceptParsed(d) ==
    LET p1 == Default(d, "final_answer", IF "sql" \in DOMAIN d THEN d["sql"] ELSE <<>>)
        p2 == Default(p1, "explanation", <<>>)
    IN  Default(p2, "citations", <<>>)

\* the heuristic part building a record also when nothing was extracted
Heuristics_always_json(text0) ==
    LET text == StripFences(text0)
        out == SniffSql(text, HeadingFields(text, MarkerFields(text)))
    IN  [kind |-> "json", fields |-> Backfill(out, text)]

\* the heuristic part of basic_request, from the fence stripping on
Heuristics(text0) ==
    LET text == StripFences(text0)
        out == SniffSql(text, HeadingFields(text, MarkerFields(text)))
    IN  IF DOMAIN out # {}
        THEN [kind |-> "json", fields |-> Backfill(out, text)]
        ELSE [kind |-> "raw", text |-> text]

\* basic_request: what the normalizer returns for a response text
basic_request(in) ==
    IF in.parsed.kind = "dict"
    THEN IF ~in.parsed.nested.isNone
         THEN Heuristics(in.parsed.nested.text)
         ELSE IF DOMAIN in.parsed.fields \cap Wanted # {} /\ in.parsed.serializable
         THEN [kind |-> "json", fields |-> AcceptParsed(in.parsed.fields)]
         ELSE Heuristics(in.text)
    ELSE Heuristics(in.text)

\* query.strip().lower().startswith("select")
IsSelect(query) ==
    LET q == Lower(Strip(query))
    IN  q # <<>> /\ q[1] = "select"

\* run_sql scanning the tables only once the query was executed
run_sql_tables_on_success(query, o) ==
    IF o.kind = "raise"
    THEN [columns |-> <<>>, rows |-> <<>>, tables_used |-> {}, error |-> Some(o.msg)]
    ELSE [columns |-> IF IsSelect(query) THEN o.columns ELSE <<>>,
          rows |-> IF IsSelect(query) THEN o.rows ELSE <<>>,
          tables_used |-> extract_tables_used(query),
          error |-> None]

\* SQLiteTool.run_sql; o is what the store does with the query: it executes it,
\* or raises in execute, in fetchall or in commit, the fields set before the
\* exception staying in the result
run_sql(query, o) ==
    IF o.kind = "raise"
    THEN [columns |-> IF o.at \in {"fetch", "commit"} /\ IsSelect(query)
                      THEN o.columns ELSE <<>>,
          rows |-> IF o.at = "commit" /\ IsSelect(query) THEN o.rows ELSE <<>>,
          tables_used |-> extract_tables_used(query),
          error |-> Some(o.msg)]
    ELSE [columns |-> IF IsSelect(query) THEN o.columns ELSE <<>>,
          rows |-> IF IsSelect(query) THEN o.rows ELSE <<>>,
          tables_used |-> extract_tables_used(query),
          error |-> None]

\* what run_sql has done with its connection when it returns: conn is bound
\* once _connect returned, and commit and close are the last two statements of
\* the try block, reached only if none before them raised
run_sql_connection(o) ==
    [opened |-> ~(o.kind = "raise" /\ o.at = "connect"),
     committed |-> o.kind = "ok",
     closed |-> o.kind = "ok"]

\* node_sqlexec asking the store whatever sql is
node_sqlexec_noguard(s, o) ==
    LET result == run_sql(s.sql, o)
    IN  [s EXCEPT !.sql_result = [kind |-> "result", result |-> result],
                  !.rows = result.rows,
                  !.columns = result.columns,
                  !.tables_used = result.tables_used,
                  !.error = result.error]

\* node_sqlexec keeping an earlier error when the store reports none
node_sqlexec_keep_error(s, o) ==
    IF s.sql = <<>>
    THEN [s EXCEPT !.sql_result = [kind |-> "error", error |-> <<"Empty SQL.">>]]
    ELSE LET result == run_sql(s.sql, o)
         IN  [s EXCEPT !.sql_result = [kind |-> "result", result |-> result],
                       !.rows = result.rows,
                       !.columns = result.columns,
                       !.tables_used = result.tables_used,
                       !.error = IF result.error.isNone THEN s.error ELSE result.error]

\* node_sqlexec; o is what the store does if it is asked
node_sqlexec(s, o) ==
    IF s.sql = <<>>
    THEN [s EXCEPT !.sql_result = [kind |-> "error", error |-> <<"Empty SQL.">>]]
    ELSE LET result == run_sql(s.sql, o)
         IN  [s EXCEPT !.sql_result = [kind |-> "result", result |-> result],
                       !.rows = result.rows,
                       !.columns = result.columns,
                       !.tables_used = result.tables_used,
                       !.error = result.error]

\* node_synthesize putting the whole message in the fallback answer
node_synthesize_notrunc(s, o) ==
    CASE o.kind = "raise" ->
            [s EXCEPT !.final_answer = <<"Unable to synthesize answer: ">> \o o.msg,
                      !.explanation = <<"The synthesis step encountered an error.">>,
                      !.citations = <<>>,
                      !.error = Some(o.msg)]
      [] o.kind = "none" ->
            [s EXCEPT !.final_answer = <<"No synthesis output">>,
                      !.explanation = <<>>,
                      !.citations = <<>>]
      [] OTHER ->
            [s EXCEPT !.final_answer = o.out.final_answer,
                      !.explanation = o.out.explanation,
                      !.citations = o.out.citations]

\* node_synthesize; o is the outcome of synth(...)
node_synthesize(s, o) ==
    CASE o.kind = "raise" ->
            [s EXCEPT !.final_answer =
                          <<"Unable to synthesize answer: ">> \o Take(o.msg, TruncLen),
                      !.explanation = <<"The synthesis step encountered an error.">>,
                      !.citations = <<>>,
                      !.error = Some(o.msg)]
      [] o.kind = "none" ->
            [s EXCEPT !.final_answer = <<"No synthesis output">>,
                      !.explanation = <<>>,
                      !.citations = <<>>]
      [] OTHER ->
            [s EXCEPT !.final_answer = o.out.final_answer,
                      !.explanation = o.out.explanation,
                      !.citations = o.out.citations]

\* node_validate_or_repair leaving the failed sql in place
node_validate_or_repair_keep_sql(s) ==
    IF Truthy(s.error)
    THEN IF s.repairs >= RepairNodeCap
         THEN s
         ELSE [s EXCEPT !.repairs = s.repairs + 1]
    ELSE s

\* node_validate_or_repair counting down instead of up
node_validate_or_repair_down(s) ==
    IF Truthy(s.error)
    THEN IF s.repairs >= RepairNodeCap
         THEN s
         ELSE [s EXCEPT !.repairs = s.repairs - 1, !.sql = <<>>]
    ELSE s

\* node_validate_or_repair
node_validate_or_repair(s) ==
    IF Truthy(s.error)
    THEN IF s.repairs >= RepairNodeCap
         THEN s
         ELSE [s EXCEPT !.repairs = s.repairs + 1, !.sql = <<>>]
    ELSE s

\* should_repair without the test of error
should_repair_noerr(s) ==
    IF s.repairs < RepairCap THEN "repair" ELSE "end"

\* should_repair with the cap test off by one
should_repair_le(s) ==
    IF Truthy(s.error) /\ s.repairs <= RepairCap THEN "repair" ELSE "end"

\* should_repair
should_repair(s) ==
    IF Truthy(s.error) /\ s.repairs < RepairCap THEN "repair" ELSE "end"

\* compute_confidence without the final min(conf, 1.0)
compute_confidence_noclamp(s) ==
    LET c0 == 1
        c1 == IF ~Truthy(s.error) THEN c0 + 4 ELSE c0
        c2 == IF s.repairs = 0 THEN c1 + 3 ELSE c1
        c3 == IF s.retrieved_docs # <<>> THEN c2 + 3 ELSE c2
    IN  c3

\* compute_confidence, in tenths
compute_confidence(s) ==
    LET c0 == 1
        c1 == IF ~Truthy(s.error) THEN c0 + 4 ELSE c0
        c2 == IF s.repairs = 0 THEN c1 + 3 ELSE c1
        c3 == IF s.retrieved_docs # <<>> THEN c2 + 3 ELSE c2
    IN  Min(c3, 10)

\* the record run_hybrid_agent builds from the graph's output
FinalRecord(out) ==
    [id |-> <<>>, final_answer |-> out.final_answer, sql |-> out.sql,
     confidence |-> compute_confidence(out), explanation |-> out.explanation,
     citations |-> out.citations]

NoFinal == [id |-> <<"-">>]

(***************************************************************************)
(* The collaborators: what the completion service and the store may do.    *)
(* env "rich" is every outcome modelled; env "plain" keeps one outcome of  *)
(* each kind, for the runs the batch driver starts.                        *)
(***************************************************************************)
\* the outcomes of a completion call that raises with one of the messages
Raises(e, msgs) ==
    {[kind |-> "raise", msg |-> m] : m \in IF e = "rich" THEN msgs ELSE {Msg(1)}}

\* the outcomes of router(question=q)
RouterOutcomes(e) ==
    IF e = "rich"
    THEN Raises(e, ExcMsgs \ {Msg(0)})
         \cup {[kind |-> "out", route |-> r] : r \in RouteOutputs}
         \cup {[kind |-> "missing"]}
    ELSE {[kind |-> "out", route |-> <<"rag">>]}

\* the corpora the retriever was built on
CorporaOf(e) == IF e = "rich" THEN PipeCorpora ELSE {<<Chunk(1, 1, 0)>>}

\* the outcomes of nl2sql(...): a raise, None, an output without sql, an output with sql
SqlGenOutcomes(e) ==
    Raises(e, ExcMsgs \ {Msg(TruncLen + 1)})
    \cup {[kind |-> "out", sql |-> Some(t)] :
             t \in IF e = "rich" THEN SqlOutputs
                   ELSE {<<"SELECT", " ", "x", " ", "FROM", " ", "t">>}}
    \cup IF e = "rich" THEN {[kind |-> "none"], [kind |-> "out", sql |-> None]} ELSE {}

\* what the store may do with a query
StoreOutcomes(e) ==
    {[kind |-> "raise", msg |-> m, at |-> a, columns |-> <<"c1">>, rows |-> <<"r1">>] :
        m \in StoreMsgs, a \in IF e = "rich" THEN {"execute", "fetch"} ELSE {"execute"}}
    \cup {[kind |-> "ok", columns |-> <<"c1">>, rows |-> r] :
             r \in IF e = "rich" THEN {<<>>, <<"r1">>} ELSE {<<"r1">>}}

\* the outcomes of synth(...)
SynthOutcomes(e) ==
    Raises(e, ExcMsgs)
    \cup {[kind |-> "out", out |-> x] : x \in SynthOutputs}
    \cup IF e = "rich" THEN {[kind |-> "none"]} ELSE {}

(***************************************************************************)
(* Pipeline actions: one per node of build_graph, its edges as pc          *)
(***************************************************************************)
\* a history entry: the node run and, for synthesize, what the completion call
\* did and the choice of the conditional edge with the state it was taken on
Entry(node, s, choice, outcome) ==
    [node |-> node, errorSet |-> Truthy(s.error), repairs |-> s.repairs,
     choice |-> choice, outcome |-> outcome]

\* the history with one more entry; what a call did is kept for the last entry only
Record(h, entry) == Append([i \in DOMAIN h |-> [h[i] EXCEPT !.outcome = "-"]], entry)

\* nl2sql returned an output whose sql field is missing or empty
EmptySqlField(o) == o.kind = "out" /\ (o.sql.isNone \/ o.sql.text = <<>>)

Router ==
    /\ pc = "router"
    /\ \E o \in RouterOutcomes(env) :
          /\ state' = node_router(state, o)
          /\ trace' = Record(trace, Entry("router", state', "-", o.kind))
    /\ pc' = "retrieve"
    /\ UNCHANGED <<env, emptyRun, final, pureVars, driver>>

Retrieve ==
    /\ pc = "retrieve"
    /\ \E corpus \in CorporaOf(env) :
          \E order \in ArgSorts(corpus) :
             state' = node_retrieve(state, retrieve(corpus, order, RetrieveK))
    /\ trace' = Record(trace, Entry("retrieve", state', "-", "-"))
    /\ pc' = "planner"
    /\ UNCHANGED <<env, emptyRun, final, pureVars, driver>>

\* planner(...) returns
Planner ==
    /\ pc = "planner"
    /\ state' = node_planner(state, [kind |-> "out", plan |-> "{plan}"])
    /\ trace' = Record(trace, Entry("planner", state', "-", "out"))
    /\ pc' = "sqlgen"
    /\ UNCHANGED <<env, emptyRun, final, pureVars, driver>>

\* planner(...) raises and the run goes on as after the other stages' failures
PlannerRaises_caught ==
    /\ pc = "planner"
    /\ trace' = Record(trace, Entry("planner", state, "-", "raise"))
    /\ pc' = "sqlgen"
    /\ UNCHANGED <<env, state, emptyRun, final, pureVars, driver>>

\* planner(...) raises: nothing catches it up to the caller of run_hybrid_agent
PlannerRaises ==
    /\ pc = "planner"
    /\ trace' = Record(trace, Entry("planner", state, "-", "raise"))
    /\ pc' = "raised"
    /\ UNCHANGED <<env, state, emptyRun, final, pureVars, driver>>

SqlGen ==
    /\ pc = "sqlgen"
    /\ \E o \in SqlGenOutcomes(env) :
          /\ state' = node_sqlgen(state, o)
          /\ trace' = Record(trace, Entry("sqlgen", state', "-", o.kind))
          /\ emptyRun' = (emptyRun /\ EmptySqlField(o))
    /\ pc' = "sqlexec"
    /\ UNCHANGED <<env, final, pureVars, driver>>

SqlExec ==
    /\ pc = "sqlexec"
    /\ \E o \in StoreOutcomes(env) :
          /\ state' = node_sqlexec(state, o)
          /\ trace' = Record(trace, Entry("sqlexec", state', "-",
                                          IF state.sql = <<>> THEN "-" ELSE o.kind))
    /\ pc' = "synthesize"
    /\ UNCHANGED <<env, emptyRun, final, pureVars, driver>>

\* the node, then the conditional edge should_repair on the node's result
Synthesize ==
    /\ pc = "synthesize"
    /\ \E o \in SynthOutcomes(env) :
          /\ state' = node_synthesize(state, o)
          /\ trace' = Record(trace,
                             Entry("synthesize", state', should_repair(state'), o.kind))
          /\ emptyRun' = (emptyRun /\ o.kind # "raise")
    /\ pc' = IF should_repair(state') = "repair" THEN "repair" ELSE "END"
    /\ UNCHANGED <<env, final, pureVars, driver>>

\* the repair node with its edge leading back to the entry point
Repair_to_router ==
    /\ pc = "repair"
    /\ state' = node_validate_or_repair(state)
    /\ trace' = Record(trace, Entry("repair", state', "-", "-"))
    /\ pc' = "router"
    /\ UNCHANGED <<env, emptyRun, final, pureVars, driver>>

\* the edge repair -> sqlgen
Repair ==
    /\ pc = "repair"
    /\ state' = node_validate_or_repair(state)
    /\ trace' = Record(trace, Entry("repair", state', "-", "-"))
    /\ pc' = "sqlgen"
    /\ UNCHANGED <<env, emptyRun, final, pureVars, driver>>

\* agent_graph.invoke returns; run_hybrid_agent builds the final record
Return ==
    /\ pc = "END"
    /\ final' = FinalRecord(state)
    /\ pc' = "returned"
    /\ UNCHANGED <<env, state, trace, emptyRun, pureVars, driver>>

PipeNext ==
    \/ Router
    \/ Retrieve
    \/ Planner
    \/ PlannerRaises
    \/ SqlGen
    \/ SqlExec
    \/ Synthesize
    \/ Repair
    \/ Return

\* one call of run_hybrid_agent
PipeInit ==
    /\ pc = "router"
    /\ state = InitialState
    /\ trace = <<>>
    /\ emptyRun = TRUE
    /\ final = NoFinal

\* no call of run_hybrid_agent is under way
PipeIdle ==
    /\ pc = "idle"
    /\ state = InitialState
    /\ trace = <<>>
    /\ emptyRun = TRUE
    /\ final = NoFinal

ConfIdle == [in |-> InitialState, out |-> -1]

RetrIdle == [corpus |-> <<>>, k |-> 0, out |-> <<>>, done |-> FALSE]

NormIdle == [parsed |-> [kind |-> "none"], text |-> <<>>, out |-> [kind |-> "pending"]]

ToolIdle ==
    [query |-> <<>>, store |-> [kind |-> "pending"], out |-> [kind |-> "pending"],
     conn |-> [opened |-> FALSE, committed |-> FALSE, closed |-> FALSE]]

DriverIdle == [pc |-> "idle"]

Init ==
    /\ env = "rich"
    /\ PipeInit
    /\ conf = ConfIdle
    /\ retr = RetrIdle
    /\ norm = NormIdle
    /\ tool = ToolIdle
    /\ driver = DriverIdle

Next == PipeNext

\* one call of run_hybrid_agent, the collaborators doing anything they can
Spec == Init /\ [][Next]_vars

(***************************************************************************)
(* compute_confidence on its own                                           *)
(***************************************************************************)
\* the largest repairs value scored
MaxConfRepairs == 4

\* the states scored: the three fields compute_confidence reads
ConfInputs ==
    {[error |-> e, repairs |-> r, retrieved_docs |-> d] :
        e \in {None, Some(<<>>), Some(Msg(1)), Some(<<"no such table">>)},
        r \in 0..MaxConfRepairs,
        d \in {<<>>, <<[id |-> 1, score |-> 7]>>,
               <<[id |-> 1, score |-> 7], [id |-> 2, score |-> 3]>>}}

InitConf ==
    /\ env = "rich"
    /\ PipeIdle
    /\ conf \in {[in |-> x, out |-> -1] : x \in ConfInputs}
    /\ retr = RetrIdle
    /\ norm = NormIdle
    /\ tool = ToolIdle
    /\ driver = DriverIdle

Score ==
    /\ conf.out = -1
    /\ conf' = [conf EXCEPT !.out = compute_confidence(conf.in)]
    /\ UNCHANGED <<env, pipeVars, retr, norm, tool, driver>>

NextConf == Score

SpecConf == InitConf /\ [][NextConf]_vars

\* 1 if the condition holds, else 0
Ind(b) == IF b THEN 1 ELSE 0

\* C6: compute_confidence is min(1.0, 0.1 + 0.4*[error unset] + 0.3*[repairs = 0]
\* + 0.3*[retrievedDocs non-empty]), in tenths; it lies in [0.1, 1.0] and does
\* not decrease when one of the three conditions turns true, the other two as
\* they are.  "error unset" is read as the code tests it: error is null or the
\* empty text.
C6_Confidence ==
    conf.out # -1 =>
        LET s == conf.in
        IN  /\ conf.out = Min(10, 1 + 4 * Ind(~Truthy(s.error)) + 3 * Ind(s.repairs = 0)
                                    + 3 * Ind(s.retrieved_docs # <<>>))
            /\ conf.out \in 1..10
            /\ Truthy(s.error) =>
                  compute_confidence([s EXCEPT !.error = None]) >= conf.out
            /\ s.repairs # 0 =>
                  compute_confidence([s EXCEPT !.repairs = 0]) >= conf.out
            /\ s.retrieved_docs = <<>> =>
                  compute_confidence([s EXCEPT !.retrieved_docs = <<[id |-> 1, score |-> 7]>>])
                      >= conf.out

\* C6 witness: a state with all three conditions true was scored, and the sum
\* 1.1 was clamped to 1.0.
C6_Witness ==
    /\ conf.out = 10
    /\ conf.in.error = None
    /\ conf.in.repairs = 0
    /\ conf.in.retrieved_docs # <<>>

(***************************************************************************)
(* retrieve on its own                                                     *)
(***************************************************************************)
\* the largest corpus
MaxChunks == 3

\* the scores a chunk may have under each index
Bm25Scores == {0, 1, 2}

TfidfScores == {0, 1}

\* the corpora of n chunks, chunk i at position i of self.chunks
CorporaOfSize(n) ==
    {[i \in 1..n |-> Chunk(i, b[i], t[i])] :
        b \in [1..n -> Bm25Scores], t \in [1..n -> TfidfScores]}

Corpora == UNION {CorporaOfSize(n) : n \in 0..MaxChunks}

InitRetrieve ==
    /\ env = "rich"
    /\ PipeIdle
    /\ conf = ConfIdle
    /\ retr \in {[corpus |-> c, k |-> k, out |-> <<>>, done |-> FALSE] :
                    c \in Corpora, k \in (-2)..(MaxChunks + 1)}
    /\ norm = NormIdle
    /\ tool = ToolIdle
    /\ driver = DriverIdle

DoRetrieve ==
    /\ ~retr.done
    /\ \E order \in ArgSorts(retr.corpus) :
          retr' = [retr EXCEPT !.out = retrieve(retr.corpus, order, retr.k),
                               !.done = TRUE]
    /\ UNCHANGED <<env, pipeVars, conf, norm, tool, driver>>

NextRetrieve == DoRetrieve

SpecRetrieve == InitRetrieve /\ [][NextRetrieve]_vars

\* the scores do not increase along the sequence
NonIncreasing(out) == \A i \in 1..(Len(out) - 1) : out[i].score >= out[i + 1].score

\* the chunks returned are chunks of the corpus, each once, with their scores
FromCorpus(out, corpus) ==
    /\ \A i \in DOMAIN out :
          out[i].id \in DOMAIN corpus /\ out[i].score = Combined(corpus[out[i].id])
    /\ \A i, j \in DOMAIN out : i # j => out[i].id # out[j].id

\* no chunk left out scores higher than a chunk returned
TopScored(out, corpus) ==
    \A i \in DOMAIN out :
        \A c \in DOMAIN corpus :
            (\A j \in DOMAIN out : out[j].id # c) => out[i].score >= Combined(corpus[c])

\* C7 as stated: for every integer k, retrieve returns at most k chunks (none
\* for a k below 0), in non-increasing order of combined score, none scoring
\* lower than a chunk left out.
C7_Original ==
    retr.done =>
        /\ Len(retr.out) <= Max(retr.k, 0)
        /\ FromCorpus(retr.out, retr.corpus)
        /\ NonIncreasing(retr.out)
        /\ TopScored(retr.out, retr.corpus)

\* what retrieve does keep: for every k >= 0 it returns at most k chunks; for
\* a negative k it returns all chunks but the -k lowest scored; in both cases
\* the chunks are in non-increasing order of combined score and none scores
\* lower than a chunk left out.
RetrieveTopKSorted ==
    retr.done =>
        /\ retr.k >= 0 => Len(retr.out) <= retr.k
        /\ retr.k < 0 => Len(retr.out) = Max(Len(retr.corpus) + retr.k, 0)
        /\ FromCorpus(retr.out, retr.corpus)
        /\ NonIncreasing(retr.out)
        /\ TopScored(retr.out, retr.corpus)

\* k = 2 of 3 chunks with different scores were returned, the lowest left out.
RetrieveTwoOfThree ==
    /\ retr.done
    /\ retr.k = 2
    /\ Len(retr.corpus) = 3
    /\ Len(retr.out) = 2
    /\ retr.out[1].score > retr.out[2].score
    /\ \E c \in DOMAIN retr.corpus : Combined(retr.corpus[c]) < retr.out[2].score

(***************************************************************************)
(* Properties of the pipeline                                              *)
(***************************************************************************)
\* the positions of the history at which the node ran
Runs(node) == {i \in DOMAIN trace : trace[i].node = node}

\* how often the node ran
Count(node) == Cardinality(Runs(node))

\* C1: in every reachable state of a run, whatever the completion service and
\* the store do, repairs is an integer in 0..2.
C1_RepairsInRange == state.repairs \in 0..2

\* C1 witness: a run whose every attempt failed has ended with repairs = 2.
C1_Witness ==
    /\ pc = "returned"
    /\ state.repairs = 2
    /\ \A i \in Runs("synthesize") : trace[i].errorSet

\* C2: a run in which Plan does not fault ends after finitely many steps: it is
\* never stuck before the end, GenerateSQL, Execute and Synthesize each run at
\* most 3 times, and a run has at most 3 + 3 * 3 + 2 node steps.
C2_BoundedTermination ==
    /\ Count("sqlgen") <= 3
    /\ Count("sqlexec") <= 3
    /\ Count("synthesize") <= 3
    /\ Count("repair") <= 2
    /\ Len(trace) <= 14
    /\ pc \notin {"returned", "raised"} => ENABLED Next
    /\ pc = "raised" => (Len(trace) = 3 /\ trace[3].node = "planner")

\* C2 witness: a run has ended after three attempts.
C2_Witness ==
    /\ pc = "returned"
    /\ Count("sqlgen") = 3
    /\ Count("sqlexec") = 3
    /\ Count("synthesize") = 3

\* C3: the repair decision is taken after Synthesize and nowhere else; it
\* chooses Repair exactly when error is set and repairs < 2 and ends the run
\* otherwise, so at the end error is unset or repairs = 2.  "error is set" is
\* read as the code tests it: error holds a non-empty text.
C3_RepairDecision ==
    /\ \A i \in DOMAIN trace :
          /\ trace[i].choice # "-" <=> trace[i].node = "synthesize"
          /\ trace[i].node = "synthesize" =>
                (trace[i].choice = "repair" <=> (trace[i].errorSet /\ trace[i].repairs < 2))
          /\ trace[i].node = "repair" => (i > 1 /\ trace[i - 1].choice = "repair")
          /\ (i < Len(trace) /\ trace[i].choice = "repair") => trace[i + 1].node = "repair"
          /\ (i < Len(trace) /\ trace[i].choice = "end") => FALSE
    /\ pc = "repair" <=> (trace # <<>> /\ trace[Len(trace)].choice = "repair")
    /\ pc \in {"END", "returned"} <=> (trace # <<>> /\ trace[Len(trace)].choice = "end")
    /\ pc \in {"END", "returned"} => (~Truthy(state.error) \/ state.repairs = 2)

\* C3 witness: the decision has chosen Repair, and later ended a run whose
\* error was still set.
C3_Witness ==
    /\ pc = "END"
    /\ Truthy(state.error)
    /\ Count("repair") = 2

C5_StageOrder ==
    LET Follows(i, n) == IF i < Len(trace) THEN trace[i + 1].node = n ELSE pc = n
    IN  /\ \A i \in DOMAIN trace :
              /\ i = 1 <=> trace[i].node = "router"
              /\ i = 2 <=> trace[i].node = "retrieve"
              /\ i = 3 <=> trace[i].node = "planner"
              /\ (trace[i].node = "planner" /\ pc # "raised") => Follows(i, "sqlgen")
              /\ trace[i].node = "repair" => Follows(i, "sqlgen")
              /\ trace[i].node = "sqlgen" => Follows(i, "sqlexec")
              /\ trace[i].node = "sqlexec" => Follows(i, "synthesize")
        /\ trace = <<>> => pc = "router"
        /\ Len(trace) = 1 => pc = "retrieve"
        /\ Len(trace) = 2 => pc = "planner"
        /\ pc = "returned" =>
              (Count("router") = 1 /\ Count("retrieve") = 1 /\ Count("planner") = 1)

\* C5 witness: a run with a repair has ended.
C5_Witness == pc = "returned" /\ Count("repair") >= 1

(***************************************************************************)
(* basic_request on its own                                                *)
(***************************************************************************)
\* the longest completion text, in atoms
MaxTextLen == 4

\* the atoms of the completion texts
NormAtoms ==
    {"x", " ", "\n", "[", "<fence>", "{", "}", "SELECT", "rag",
     "[[ ## final_answer ## ]]", "[[ ## explanation ## ]]", "Final Answer:"}

\* the dicts a text may parse to: one with a nested text, ones with expected
\* fields, one with none, one json.dumps cannot serialize
ParsedDicts ==
    {[kind |-> "dict", nested |-> Some(t), fields |-> EmptyDict, serializable |-> TRUE] :
        t \in {<<"x">>, <<"[[ ## final_answer ## ]]", " ", "x">>}}
    \cup {[kind |-> "dict", nested |-> None, fields |-> f, serializable |-> TRUE] :
            f \in {"sql" :> <<"SELECT", " ", "x">>, "final_answer" :> <<"x">>,
                   "other" :> <<"x">>}}
    \cup {[kind |-> "dict", nested |-> None, fields |-> "sql" :> <<"x">>,
           serializable |-> FALSE]}

\* what the two parsers may make of the text: they are tried on a text whose
\* first character is an opening brace, and a dict literal ends with a closing one
ParseResults(t) ==
    LET u == Strip(t)
    IN  {[kind |-> "none"]}
        \cup IF u # <<>> /\ u[1] = "{" /\ u[Len(u)] = "}" THEN ParsedDicts ELSE {}

InitNormalize ==
    /\ env = "rich"
    /\ PipeIdle
    /\ conf = ConfIdle
    /\ retr = RetrIdle
    /\ \E n \in 0..MaxTextLen :
          \E t \in [1..n -> NormAtoms] :
             \E pr \in ParseResults(t) :
                norm = [parsed |-> pr, text |-> t, out |-> [kind |-> "pending"]]
    /\ tool = ToolIdle
    /\ driver = DriverIdle

Normalize ==
    /\ norm.out.kind = "pending"
    /\ norm' = [norm EXCEPT !.out = basic_request([parsed |-> norm.parsed, text |-> norm.text])]
    /\ UNCHANGED <<env, pipeVars, conf, retr, tool, driver>>

NextNormalize == Normalize

SpecNormalize == InitNormalize /\ [][NextNormalize]_vars

\* the atoms of the markers and of the headings
MarkerAtoms ==
    {"[[ ## final_answer ## ]]", "[[ ## explanation ## ]]", "[[ ## citations ## ]]",
     "[[ ## sql ## ]]"}

HeadingAtoms == {"Final Answer:", "Explanation:", "Citations:"}

\* the direct structured parse returned its dict
ParseAccepted(in) ==
    /\ in.parsed.kind = "dict"
    /\ in.parsed.nested.isNone
    /\ DOMAIN in.parsed.fields \cap Wanted # {}
    /\ in.parsed.serializable

\* the text the heuristics start from: the nested text of a parsed dict, else the text
HeuristicText(in) ==
    IF in.parsed.kind = "dict" /\ ~in.parsed.nested.isNone
    THEN in.parsed.nested.text
    ELSE in.text

\* no structure is recognized: no accepted parse, no marker, no heading, and no
\* query keyword leading the text, fences stripped
NoStructure(in) ==
    /\ ~ParseAccepted(in)
    /\ \A i \in DOMAIN HeuristicText(in) :
          HeuristicText(in)[i] \notin MarkerAtoms \cup HeadingAtoms
    /\ ~SqlLike(StripFences(HeuristicText(in)))

UpToNextMarker(t, i) ==
    LET e == FirstFrom(t, MarkerAtoms, i + 1)
    IN  SubSeq(t, i + 1, IF e = 0 THEN Len(t) ELSE e - 1)

\* the content following the first final_answer marker, else the first heading
ClaimedFinalAnswer(t) ==
    LET m == FirstIn(t, {"[[ ## final_answer ## ]]"})
        h == FirstIn(t, {"Final Answer:"})
    IN  UpToNextMarker(t, IF m # 0 THEN m ELSE h)

\* C9 as stated: for a text with a final_answer marker or a Final Answer heading
\* the result is a record whose final_answer is the content after it up to the
\* next marker or the end of the text; surrounding white space is not counted.
C9_Original ==
    (/\ norm.out.kind # "pending"
     /\ \E i \in DOMAIN norm.text :
           norm.text[i] \in {"[[ ## final_answer ## ]]", "Final Answer:"})
    => /\ norm.out.kind = "json"
       /\ "final_answer" \in DOMAIN norm.out.fields
       /\ norm.out.fields["final_answer"] = Strip(ClaimedFinalAnswer(norm.text))

\* a newline followed by a bracket is at position p
BracketLineAt(t, p) == t[p] = "\n" /\ p < Len(t) /\ StartsBracket(t[p + 1])

\* a newline ending the text, or followed by a newline or a bracket, is at p
HeadingEndAt(t, p) ==
    t[p] = "\n" /\ (p = Len(t) \/ t[p + 1] = "\n" \/ StartsBracket(t[p + 1]))

\* the first position from j on with a newline followed by a bracket, or Len(t) + 1
NextBracketLine(t, j) ==
    CHOOSE p \in j..(Len(t) + 1) :
        /\ p = Len(t) + 1 \/ BracketLineAt(t, p)
        /\ \A q \in j..(p - 1) : ~BracketLineAt(t, q)

\* the first position from j on at which a heading's value ends, or Len(t) + 1
NextHeadingEnd(t, j) ==
    CHOOSE p \in j..(Len(t) + 1) :
        /\ p = Len(t) + 1 \/ HeadingEndAt(t, p)
        /\ \A q \in j..(p - 1) : ~HeadingEndAt(t, q)

\* the first position after i holding no white space, or Len(t) + 1
FirstNonSpace(t, i) ==
    CHOOSE j \in (i + 1)..(Len(t) + 1) :
        /\ j = Len(t) + 1 \/ ~IsSpace(t[j])
        /\ \A q \in (i + 1)..(j - 1) : IsSpace(t[q])

\* C9 amended: for a text the structured parse did not return, fences stripped:
\* if its first final_answer marker is followed by more than white space, the
\* result is a record whose final_answer is the text from the first character
\* after the marker that is no white space up to the next newline followed by
\* a bracket, or the end, trimmed; if no final_answer marker has such a value
\* and a Final Answer heading is there, final_answer is the text after the
\* first heading up to the next blank line, newline followed by a bracket, or
\* the end, trimmed.
C9_FinalAnswerExtracted ==
    (norm.out.kind # "pending" /\ ~ParseAccepted(norm)) =>
        LET t == StripFences(HeuristicText(norm))
            m == FirstIn(t, {"[[ ## final_answer ## ]]"})
            h == FirstIn(t, {"Final Answer:"})
            jm == FirstNonSpace(t, m)
            jh == FirstNonSpace(t, h)
        IN  /\ (m # 0 /\ jm <= Len(t)) =>
                  /\ norm.out.kind = "json"
                  /\ norm.out.fields["final_answer"] =
                        Strip(SubSeq(t, jm, NextBracketLine(t, jm) - 1))
            /\ (h # 0 /\ (m = 0 \/ jm > Len(t))) =>
                  /\ norm.out.kind = "json"
                  /\ norm.out.fields["final_answer"] =
                        Strip(SubSeq(t, jh, NextHeadingEnd(t, jh) - 1))

\* C9 witness: a marker's value that runs over a newline and ends before a
\* newline followed by a marker.
C9_Witness ==
    /\ norm.out.kind = "json"
    /\ norm.text = <<"[[ ## final_answer ## ]]", "x", "\n", "[[ ## explanation ## ]]">>
    /\ norm.out.fields["final_answer"] = <<"x">>

(***************************************************************************)
(* The batch driver: main of run_agent_hybrid.py around run_hybrid_agent   *)
(***************************************************************************)
\* the longest batch file, in lines
MaxLines == 2

\* the lines of a batch file: a blank one, one that is no JSON, JSON that is no
\* dict, and dicts with or without id and question
BatchLines ==
    {[kind |-> "blank"], [kind |-> "invalid"], [kind |-> "notdict"],
     [kind |-> "dict", id |-> Some(<<"a">>), question |-> Some(<<"q">>)],
     [kind |-> "dict", id |-> None, question |-> Some(<<"q">>)],
     [kind |-> "dict", id |-> Some(<<"b">>), question |-> Some(<<>>)],
     [kind |-> "dict", id |-> Some(<<"c">>), question |-> None]}

Batches == UNION {[1..n -> BatchLines] : n \in 0..MaxLines}

\* the lines json.loads makes a dict of, in the order of the file
RECURSIVE LoadInputs(_)
LoadInputs(lines) ==
    IF lines = <<>> THEN <<>>
    ELSE IF Head(lines).kind = "dict"
    THEN <<Head(lines)>> \o LoadInputs(Tail(lines))
    ELSE LoadInputs(Tail(lines))

\* item.get("id", "unknown_id")
Qid(item) == IF item.id.isNone THEN <<"unknown_id">> ELSE item.id.text

\* checkpoint_config of the call: the thread named after the item's id
ThreadId(item) == <<"thread_">> \o Qid(item)

\* the threads of a batch's items
Threads == {<<"thread_">> \o i : i \in {<<"a">>, <<"b">>, <<"c">>, <<"unknown_id">>}}

\* no checkpoint is saved for a thread
NoCheckpoint == [present |-> FALSE, values |-> InitialState]

\* the inputs of run_hybrid_agent with the counters and results left out
RunInputs_partial(question) ==
    [k \in {"question", "format_hint", "route", "retrieved_docs", "plan"} |->
        IF k = "question" THEN question ELSE InitialState[k]]

\* the inputs run_hybrid_agent builds: every key of AgentState
RunInputs(question) == [InitialState EXCEPT !.question = question]

\* agent_graph.invoke(inputs, config) of the graph compiled with MemorySaver:
\* the values the run starts on are those of the inputs, for the keys the
\* inputs leave out those of the thread's checkpoint
Invoke(saved, inputs) ==
    [k \in DOMAIN InitialState |->
        IF k \in DOMAIN inputs THEN inputs[k]
        ELSE IF saved.present THEN saved.values[k]
        ELSE InitialState[k]]

InitBatch ==
    /\ env = "plain"
    /\ PipeIdle
    /\ conf = ConfIdle
    /\ retr = RetrIdle
    /\ norm = NormIdle
    /\ tool = ToolIdle
    /\ driver \in {[pc |-> "load", lines |-> b, inputs |-> <<>>, i |-> 1,
                    outputs |-> <<>>, file |-> None,
                    saver |-> [t \in Threads |-> NoCheckpoint]] : b \in Batches}

\* the batch file is read; with no valid line main returns at once
Load ==
    /\ driver.pc = "load"
    /\ driver' = [driver EXCEPT !.inputs = LoadInputs(driver.lines),
                                !.pc = IF LoadInputs(driver.lines) = <<>>
                                       THEN "exit" ELSE "loop"]
    /\ UNCHANGED <<env, pipeVars, pureVars>>

\* an item without a question is passed over
Skip ==
    /\ driver.pc = "loop"
    /\ driver.i <= Len(driver.inputs)
    /\ ~Truthy(driver.inputs[driver.i].question)
    /\ driver' = [driver EXCEPT !.i = @ + 1]
    /\ UNCHANGED <<env, pipeVars, pureVars>>

\* run_hybrid_agent is called on the item
Call ==
    /\ driver.pc = "loop"
    /\ driver.i <= Len(driver.inputs)
    /\ Truthy(driver.inputs[driver.i].question)
    /\ driver' = [driver EXCEPT !.pc = "call"]
    /\ pc' = "router"
    /\ state' = Invoke(driver.saver[ThreadId(driver.inputs[driver.i])],
                        RunInputs(driver.inputs[driver.i].question.text))
    /\ trace' = <<>>
    /\ emptyRun' = TRUE
    /\ final' = NoFinal
    /\ UNCHANGED <<env, pureVars>>

\* the call returned: the record gets the item's id and joins the outputs; the
\* thread's checkpoint is the state the run ended on
Collect ==
    /\ driver.pc = "call"
    /\ pc = "returned"
    /\ driver' = [driver EXCEPT
                     !.outputs = Append(@, [final EXCEPT !.id = Qid(driver.inputs[driver.i])]),
                     !.i = @ + 1,
                     !.pc = "loop",
                     !.saver[ThreadId(driver.inputs[driver.i])] =
                         [present |-> TRUE, values |-> state]]
    /\ pc' = "idle"
    /\ UNCHANGED <<env, state, trace, emptyRun, final, pureVars>>

\* the call raised: main has no handler, the exception leaves main before the
\* output file is opened
Crash ==
    /\ driver.pc = "call"
    /\ pc = "raised"
    /\ driver' = [driver EXCEPT !.pc = "crashed"]
    /\ UNCHANGED <<env, pipeVars, pureVars>>

\* the loop is over: the outputs are written
Save ==
    /\ driver.pc = "loop"
    /\ driver.i > Len(driver.inputs)
    /\ driver' = [driver EXCEPT !.file = Some(driver.outputs), !.pc = "done"]
    /\ UNCHANGED <<env, pipeVars, pureVars>>

NextBatch ==
    \/ Load
    \/ Skip
    \/ Call
    \/ Collect
    \/ Crash
    \/ Save
    \/ PipeNext

SpecBatch == InitBatch /\ [][NextBatch]_vars

\* the ids of the records that are a mapping with a question that is not empty
RECURSIVE ValidIds(_)
ValidIds(lines) ==
    IF lines = <<>> THEN <<>>
    ELSE IF Head(lines).kind = "dict" /\ Truthy(Head(lines).question)
    THEN <<Qid(Head(lines))>> \o ValidIds(Tail(lines))
    ELSE ValidIds(Tail(lines))

\* the ids of the records written
FileIds(f) == [j \in DOMAIN f |-> f[j].id]

\* C10 as stated: the driver never raises because of a failure inside the
\* agent, and once it is over one record is written for each record of the
\* batch that is a mapping with a question that is not empty, in input order.
C10_Original ==
    /\ driver.pc # "crashed"
    /\ driver.pc \in {"done", "exit"} =>
          FileIds(IF driver.file.isNone THEN <<>> ELSE driver.file.text)
             = ValidIds(driver.lines)

\* what the driver does keep: a run in which no call raised writes one record
\* for each such record, in input order, malformed lines passed over.
BatchWritesValidInOrder ==
    /\ driver.pc = "done" => FileIds(driver.file.text) = ValidIds(driver.lines)
    /\ driver.pc = "exit" => driver.file.isNone /\ ValidIds(driver.lines) = <<>>
    /\ driver.pc = "crashed" => driver.file.isNone

(***************************************************************************)
(* Properties of the stages                                                *)
(***************************************************************************)
\* the three routes
Routes == {<<"rag">>, <<"sql">>, <<"hybrid">>}

\* C11 as stated: once the Route stage has run, route is one of rag, sql and
\* hybrid, whatever the completion returned.
C11_Original == pc # "router" => state.route \in Routes

\* what node_router does keep: a completion call that raised leaves route =
\* hybrid and an error starting with the router's notice, and the run goes on
\* to Retrieve.
RouterFailureFallsBack ==
    (Len(trace) = 1 /\ trace[1].errorSet) =>
        /\ state.route = <<"hybrid">>
        /\ state.error.text[1] = "Router failed: "
        /\ pc = "retrieve"

(***************************************************************************)
(* run_sql on its own                                                      *)
(***************************************************************************)
\* the longest query, in atoms, besides the scenario's
MaxQueryLen == 4

\* the atoms of the queries
QueryAtoms == {"SELECT", " ", "\n", "FROM", "join", "Products", "t", "1", ","}

\* SELECT ProductName FROM Products LIMIT 1
ScenarioQuery ==
    <<"SELECT", " ", "ProductName", " ", "FROM", " ", "Products", " ", "LIMIT", " ", "1">>

\* what the store may do with a query: execute it, the cursor describing one
\* column and giving no row or one, or raise when the connection is made or at
\* one of its three calls on it
ToolStoreOutcomes ==
    {[kind |-> "raise", msg |-> m, at |-> a, columns |-> <<"ProductName">>,
      rows |-> <<"r1">>] :
        m \in StoreMsgs, a \in {"connect", "execute", "fetch", "commit"}}
    \cup {[kind |-> "ok", columns |-> <<"ProductName">>, rows |-> r] :
             r \in {<<>>, <<"r1">>}}

InitSql ==
    /\ env = "rich"
    /\ PipeIdle
    /\ conf = ConfIdle
    /\ retr = RetrIdle
    /\ norm = NormIdle
    /\ driver = DriverIdle
    /\ \/ tool = [ToolIdle EXCEPT !.query = ScenarioQuery]
       \/ \E n \in 0..MaxQueryLen :
             \E q \in [1..n -> QueryAtoms] : tool = [ToolIdle EXCEPT !.query = q]

RunSql ==
    /\ tool.out.kind = "pending"
    /\ \E o \in ToolStoreOutcomes :
          \* fetchall is called for a select only
          /\ (o.kind = "raise" /\ o.at = "fetch") => IsSelect(tool.query)
          /\ tool' = [tool EXCEPT !.store = o,
                                  !.out = [kind |-> "result",
                                           result |-> run_sql(tool.query, o)],
                                  !.conn = run_sql_connection(o)]
    /\ UNCHANGED <<env, pipeVars, conf, retr, norm, driver>>

NextSql == RunSql

SpecSql == InitSql /\ [][NextSql]_vars

\* C12: for every query, whatever the store does, run_sql returns a record of
\* columns, rows, tables_used and error; error is null exactly when the store
\* executed the query without fault and else is the failure's text; and
\* tables_used is the value it would be for any other behaviour of the store.
C12_RunSqlNeverRaises ==
    tool.out.kind # "pending" =>
        LET res == tool.out.result
        IN  /\ tool.out.kind = "result"
            /\ DOMAIN res = {"columns", "rows", "tables_used", "error"}
            /\ res.error.isNone <=> tool.store.kind = "ok"
            /\ tool.store.kind = "raise" => res.error = Some(tool.store.msg)
            /\ \A o \in ToolStoreOutcomes :
                  run_sql(tool.query, o).tables_used = res.tables_used

\* C12 witness: the store raised on a query naming a table; the result holds
\* the failure's text and the table.
C12_Witness ==
    /\ tool.out.kind = "result"
    /\ tool.store.kind = "raise"
    /\ tool.out.result.error = Some(<<"no such table">>)
    /\ tool.out.result.tables_used = {<<"t">>}

\* C13 as stated: on a store with a Products table, the query SELECT
\* ProductName FROM Products LIMIT 1 gives tables_used = {Products} and one
\* row with one column.
C13_Original ==
    (/\ tool.out.kind = "result"
     /\ tool.query = ScenarioQuery
     /\ tool.store = [kind |-> "ok", columns |-> <<"ProductName">>, rows |-> <<"r1">>])
    => /\ tool.out.result.tables_used = {<<"Products">>}
       /\ Len(tool.out.result.rows) = 1
       /\ Len(tool.out.result.columns) = 1

\* what run_sql does give for the scenario: the row and the column, and as
\* the one table the name with the clause that follows it.
ScenarioTablesUsed ==
    (/\ tool.out.kind = "result"
     /\ tool.query = ScenarioQuery
     /\ tool.store = [kind |-> "ok", columns |-> <<"ProductName">>, rows |-> <<"r1">>])
    => /\ tool.out.result.tables_used = {<<"Products", " ", "LIMIT", " ", "1">>}
       /\ tool.out.result.rows = <<"r1">>
       /\ tool.out.result.columns = <<"ProductName">>

LastNode == IF trace = <<>> THEN "-" ELSE trace[Len(trace)].node

\* C15 as stated: once Execute has run with sql empty, the state's error is
\* "Empty SQL.".
C15_Original ==
    (LastNode = "sqlexec" /\ state.sql = <<>>) => state.error = Some(<<"Empty SQL.">>)

\* C15 amended: an Execute step with sql empty records "Empty SQL." as the
\* error of sql_result and changes nothing else: error, rows, columns and
\* tables_used stay as they were and no result of the store enters the state;
\* a step that does put a result of the store in the state had a sql that
\* was not empty.
C15_EmptySqlSkipsStore ==
    [][pc = "sqlexec" =>
          /\ state.sql = <<>> =>
                state' = [state EXCEPT
                             !.sql_result = [kind |-> "error", error |-> <<"Empty SQL.">>]]
          /\ state'.sql_result.kind = "result" => state.sql # <<>>]_vars

\* C15 witness: Execute ran with the empty sql GenerateSQL's guard left, whose
\* error is still the state's error.
C15_Witness ==
    /\ LastNode = "sqlexec"
    /\ state.sql = <<>>
    /\ state.sql_result = [kind |-> "error", error |-> <<"Empty SQL.">>]
    /\ state.error = Some(<<"NL2SQL returned empty SQL">>)

\* C16: an Execute step with a sql that is not empty leaves in columns, rows,
\* tables_used and error what the store's run_sql returned for that sql; a
\* null error of the store replaces whatever error was there, so after every
\* execution without fault error is null.
C16_StoreResultVerbatim ==
    [][(pc = "sqlexec" /\ state.sql # <<>>) =>
          \E o \in StoreOutcomes(env) :
             LET result == run_sql(state.sql, o)
             IN  /\ state'.sql_result = [kind |-> "result", result |-> result]
                 /\ state'.columns = result.columns
                 /\ state'.rows = result.rows
                 /\ state'.tables_used = result.tables_used
                 /\ state'.error = result.error
                 /\ o.kind = "ok" => state'.error = None]_vars

\* C16 witness: the router's failure had set error, and an execution without
\* fault has cleared it.
C16_Witness ==
    /\ LastNode = "sqlexec"
    /\ trace[1].errorSet
    /\ state.sql_result.kind = "result"
    /\ state.error = None
    /\ state.rows = <<"r1">>

\* C17 as stated: after every GenerateSQL step an empty sql comes with an
\* error (here: any value but null).
C17_Original ==
    (LastNode = "sqlgen" /\ state.sql = <<>>) => ~state.error.isNone

\* what node_sqlgen does keep: a null output and an empty or missing sql field
\* leave sql empty with an error that is set, and a sql that is not empty is
\* the trimmed text of the completion.
SqlGenGuardsMarkError ==
    LastNode = "sqlgen" =>
        /\ state.sql_result \in
              {[kind |-> "error", error |-> <<"NL2SQL produced no output">>],
               [kind |-> "error", error |-> <<"NL2SQL returned empty SQL">>]}
           => state.sql = <<>> /\ state.error = Some(state.sql_result.error)
        /\ state.sql # <<>> => state.sql = Strip(state.sql)

\* what the completion call of the node that ran last did
LastOutcome == IF trace = <<>> THEN "-" ELSE trace[Len(trace)].outcome

\* C18 as stated, its second half: once Synthesize has run with a call that
\* returned null, final answer, explanation and citations are empty.
C18_Original ==
    (LastNode = "synthesize" /\ LastOutcome = "none") =>
        /\ state.final_answer = <<>>
        /\ state.explanation = <<>>
        /\ state.citations = <<>>

\* C18 amended: a Synthesize step whose call raises sets error to the failure
\* text, final answer to the fallback notice followed by the first 100
\* characters of that text, explanation to the fixed notice and citations to
\* empty, all else unchanged; a step whose call returns null sets final answer
\* to the fixed text "No synthesis output" and explanation and citations to
\* empty, error and all else unchanged.
C18_SynthesizeFallbacks ==
    [][pc = "synthesize" =>
          LET outcome == trace'[Len(trace')].outcome
          IN  /\ outcome = "raise" =>
                    /\ ~state'.error.isNone
                    /\ state'.error.text \in ExcMsgs
                    /\ state' = [state EXCEPT
                          !.final_answer = <<"Unable to synthesize answer: ">>
                                              \o SubSeq(state'.error.text, 1,
                                                        Min(100, Len(state'.error.text))),
                          !.explanation = <<"The synthesis step encountered an error.">>,
                          !.citations = <<>>,
                          !.error = state'.error]
              /\ outcome = "none" =>
                    state' = [state EXCEPT !.final_answer = <<"No synthesis output">>,
                                           !.explanation = <<>>,
                                           !.citations = <<>>]]_vars

\* C18 witness: the call raised with a message of 101 characters, of which the
\* fallback answer holds 100.
C18_Witness ==
    /\ LastNode = "synthesize"
    /\ LastOutcome = "raise"
    /\ Len(state.error.text) = 101
    /\ Len(state.final_answer) = 101
    /\ state.citations = <<>>

\* C19: a run the Plan stage's call raised in has ended there, with no
\* GenerateSQL, Execute or Synthesize step and no final record; a raise of the
\* call of any other stage is followed by the next stage of the graph, and no
\* run that is not over is stuck, so such a run goes on to its end.
C19_OnlyPlanAborts ==
    /\ \A i \in DOMAIN trace :
          (trace[i].node = "planner" /\ trace[i].outcome = "raise") =>
              /\ i = Len(trace)
              /\ pc = "raised"
    /\ pc = "raised" =>
          /\ LastNode = "planner" /\ LastOutcome = "raise"
          /\ Count("sqlgen") = 0 /\ Count("sqlexec") = 0 /\ Count("synthesize") = 0
          /\ final = NoFinal
          /\ ~ENABLED Next
    /\ (LastOutcome = "raise" /\ LastNode = "router") => pc = "retrieve"
    /\ (LastOutcome = "raise" /\ LastNode = "sqlgen") => pc = "sqlexec"
    /\ (LastOutcome = "raise" /\ LastNode = "sqlexec") => pc = "synthesize"
    /\ (LastOutcome = "raise" /\ LastNode = "synthesize") => pc \in {"repair", "END", "returned"}
    /\ pc \notin {"returned", "raised"} => ENABLED Next
    /\ pc = "returned" => final = FinalRecord(state)

\* C19 witness: the router's call raised, leaving its error, and the run went
\* on; then the planner's call raised and the run is over.
C19_Witness ==
    /\ pc = "raised"
    /\ Len(trace) = 3
    /\ trace[1].node = "router" /\ trace[1].errorSet
    /\ trace[3].node = "planner" /\ trace[3].outcome = "raise"
    /\ final = NoFinal

\* C20: only a Repair step changes repairs; every Repair step increases it
\* by exactly 1, sets sql to the empty text, changes nothing else and is
\* followed by GenerateSQL; it is taken with an error set and repairs below 2,
\* so neither of the node's early returns is taken.
C20_RepairOnlyIncrements ==
    [][/\ pc # "repair" => state'.repairs = state.repairs
       /\ pc = "repair" =>
             /\ Truthy(state.error) /\ state.repairs < 2
             /\ state' = [state EXCEPT !.repairs = state.repairs + 1, !.sql = <<>>]
             /\ pc' = "sqlgen"]_vars

\* C20 witness: the second Repair step of a run has cleared a sql that was not
\* empty, and GenerateSQL is next.
C20_Witness ==
    /\ LastNode = "repair"
    /\ state.repairs = 2
    /\ state.sql = <<>>
    /\ state.sql_result.kind = "result"
    /\ pc = "sqlgen"

\* C21 as stated: whenever the decision after Synthesize is Repair, the
\* Execute step just before either was skipped for an empty sql or got an
\* error from the store.
C21_Original ==
    pc = "repair" =>
        \/ state.sql_result = [kind |-> "error", error |-> <<"Empty SQL.">>]
        \/ /\ state.sql_result.kind = "result"
           /\ ~state.sql_result.result.error.isNone

\* a Repair decision taken after an execution without fault: the store's
\* result is in the state with a null error, and the error that is set is
\* the one Synthesize's failed call left
RepairAfterSynthesisFailure ==
    /\ pc = "repair"
    /\ state.sql_result.kind = "result"
    /\ state.sql_result.result.error.isNone
    /\ LastNode = "synthesize" /\ LastOutcome = "raise"
    /\ Truthy(state.error)

\* the indices of the corpus sorted stably by descending combined score: of
\* two chunks the higher scored first, of two equally scored the lower index
StableDescending(corpus) ==
    CHOOSE p \in Perms(Len(corpus)) :
        \A i, j \in 1..Len(corpus) :
            i < j =>
                \/ Combined(corpus[p[i]]) > Combined(corpus[p[j]])
                \/ /\ Combined(corpus[p[i]]) = Combined(corpus[p[j]])
                   /\ p[i] < p[j]

\* C22 as stated: for a k of 0 or more the result is the first k chunks of
\* the stable sort by descending score, equally scored chunks in indexing
\* order.
C22_Original ==
    (retr.done /\ retr.k >= 0) =>
        LET st == Take(StableDescending(retr.corpus), retr.k)
        IN  retr.out = [i \in 1..Len(st) |->
                           [id |-> retr.corpus[st[i]].id,
                            score |-> Combined(retr.corpus[st[i]])]]

\* C22: for a k of 0 or more the result has the scores of the first k chunks
\* of the stable sort by descending score, position by position, each chunk
\* of the corpus at most once; which of several equally scored chunks stands
\* at a position is not determined.
C22_TiesInAnyOrder ==
    (retr.done /\ retr.k >= 0) =>
        LET st == Take(StableDescending(retr.corpus), retr.k)
        IN  /\ Len(retr.out) = Len(st)
            /\ \A i \in 1..Len(st) :
                  retr.out[i].score = Combined(retr.corpus[st[i]])
            /\ FromCorpus(retr.out, retr.corpus)

\* two equally scored chunks were returned, the one indexed later first,
\* ahead of a lower scored chunk
C22_Witness ==
    /\ retr.done
    /\ retr.k >= 3
    /\ Len(retr.out) >= 3
    /\ retr.out[1].score = retr.out[2].score
    /\ retr.out[1].id > retr.out[2].id
    /\ retr.out[2].score > retr.out[3].score

\* the text is wrapped in one fenced block: it opens with a fence, closes with
\* one, and holds no other
Fenced(t) ==
    /\ Len(t) >= 2
    /\ t[1] = "<fence>"
    /\ t[Len(t)] = "<fence>"
    /\ \A i \in 2..(Len(t) - 1) : t[i] # "<fence>"

\* the inner content of a fenced text
InnerContent(t) == Strip(SubSeq(t, 2, Len(t) - 1))

\* C23 as stated: for a text wrapped in a fenced block, the steps after the
\* fence stripping work on the inner content of the block, so the result is
\* the one the inner content alone gives.
C23_Original ==
    (norm.out.kind # "pending" /\ ~ParseAccepted(norm) /\ Fenced(HeuristicText(norm))) =>
        norm.out = Heuristics(InnerContent(HeuristicText(norm)))

\* what the code does with a text wrapped in a fenced block: nothing follows
\* the closing fence, so the later steps get the empty text and the result is
\* the empty text
FencedTextIsLost ==
    (norm.out.kind # "pending" /\ ~ParseAccepted(norm) /\ Fenced(HeuristicText(norm))) =>
        norm.out = [kind |-> "raw", text |-> <<>>]

\* the fields the markers and the headings resolve in the text the heuristics
\* work on
Resolved(in) ==
    LET text == StripFences(HeuristicText(in))
    IN  HeadingFields(text, MarkerFields(text))

\* C24 as stated: when a marker or a heading resolved a field, the content
\* sniffing does not apply: the record is the one built from the resolved
\* fields, and its sql is not the whole text even if the text begins with a
\* query keyword.
C24_Original ==
    (/\ norm.out.kind # "pending"
     /\ ~ParseAccepted(norm)
     /\ DOMAIN Resolved(norm) # {}) =>
        LET text == StripFences(HeuristicText(norm))
        IN  /\ norm.out = [kind |-> "json", fields |-> Backfill(Resolved(norm), text)]
            /\ SqlLike(text) => norm.out.fields["sql"] # Strip(text)

\* a text that begins with a query keyword and holds a Final Answer heading:
\* the heading resolved final_answer, and sql is the whole text all the same
SniffedDespiteHeading ==
    /\ norm.out.kind = "json"
    /\ ~ParseAccepted(norm)
    /\ "final_answer" \in DOMAIN Resolved(norm)
    /\ "sql" \notin DOMAIN Resolved(norm)
    /\ norm.out.fields["sql"] = Strip(StripFences(HeuristicText(norm)))
    /\ norm.out.fields["final_answer"] # norm.out.fields["sql"]

\* the six fields of a record
RecordFields == {"final_answer", "explanation", "citations", "route", "sql", "plan"}

\* the fields resolved by the markers, the headings and the content sniffing
Extracted(in) ==
    LET text == StripFences(HeuristicText(in))
    IN  SniffSql(text, Resolved(in))

\* the record f holds the extracted fields r and, for each of the six fields
\* r lacks, the default: route the first of rag, sql, hybrid found in the
\* explanation, else in the final answer, else hybrid; sql the explanation or
\* else the final answer if it holds "select", else empty; final_answer the
\* sql, else the explanation, else the first 200 characters of the text;
\* explanation and citations empty; plan the empty mapping
HasDefaults(f, r, text) ==
    LET Named(k) == k \in DOMAIN r /\ \E w \in {"rag", "sql", "hybrid"} : TextHas(r[k], w)
        Word(k) == IF TextHas(r[k], "rag") THEN <<"rag">>
                   ELSE IF TextHas(r[k], "sql") THEN <<"sql">> ELSE <<"hybrid">>
        Selects(k) == k \in DOMAIN r /\ TextHas(r[k], "select")
    IN  /\ DOMAIN f = RecordFields
        /\ \A k \in DOMAIN r : f[k] = r[k]
        /\ f["route"] = (IF Named("explanation") THEN Word("explanation")
                         ELSE IF Named("final_answer") THEN Word("final_answer")
                         ELSE <<"hybrid">>)
        /\ "sql" \notin DOMAIN r =>
              f["sql"] = (IF Selects("explanation") THEN r["explanation"]
                          ELSE IF Selects("final_answer") THEN r["final_answer"]
                          ELSE <<>>)
        /\ "final_answer" \notin DOMAIN r =>
              f["final_answer"] = (IF "sql" \in DOMAIN r THEN r["sql"]
                                   ELSE IF "explanation" \in DOMAIN r THEN r["explanation"]
                                   ELSE Take(Strip(text), AnswerLen))
        /\ "explanation" \notin DOMAIN r => f["explanation"] = <<>>
        /\ "citations" \notin DOMAIN r => f["citations"] = <<>>
        /\ f["plan"] = "{}"

\* C25 as stated: every record returned, an accepted parse or one built from
\* markers and headings, holds the six fields, each missing one with its
\* default.
C25_Original ==
    norm.out.kind = "json" =>
        IF ParseAccepted(norm)
        THEN HasDefaults(norm.out.fields, norm.parsed.fields, norm.text)
        ELSE HasDefaults(norm.out.fields, Extracted(norm),
                         StripFences(HeuristicText(norm)))

\* C25 amended: a record built from markers, headings or content sniffing
\* holds the six fields, each missing one with its default; an accepted
\* parse holds its own fields and final_answer, explanation and citations,
\* final_answer defaulting to its sql or else to the empty text, the other
\* two to empty: route, sql and plan are not added to it.
C25_HeuristicRecordsComplete ==
    norm.out.kind = "json" =>
        IF ParseAccepted(norm)
        THEN LET f == norm.out.fields
                 d == norm.parsed.fields
             IN  /\ DOMAIN f = DOMAIN d \cup {"final_answer", "explanation", "citations"}
                 /\ \A k \in DOMAIN d : f[k] = d[k]
                 /\ "final_answer" \notin DOMAIN d =>
                       f["final_answer"] = (IF "sql" \in DOMAIN d THEN d["sql"] ELSE <<>>)
                 /\ "explanation" \notin DOMAIN d => f["explanation"] = <<>>
                 /\ "citations" \notin DOMAIN d => f["citations"] = <<>>
        ELSE HasDefaults(norm.out.fields, Extracted(norm),
                         StripFences(HeuristicText(norm)))

\* C25 witness: a parsed dict with a final answer only was accepted; the
\* record has neither route nor sql nor plan.
C25_Witness ==
    /\ norm.out.kind = "json"
    /\ ParseAccepted(norm)
    /\ DOMAIN norm.parsed.fields = {"final_answer"}
    /\ DOMAIN norm.out.fields = {"final_answer", "explanation", "citations"}

\* a record built from a marker whose route was inferred from the answer
HeuristicRecordInfersRoute ==
    /\ norm.out.kind = "json"
    /\ ~ParseAccepted(norm)
    /\ "final_answer" \in DOMAIN Extracted(norm)
    /\ norm.out.fields["route"] = <<"rag">>
    /\ norm.out.fields["plan"] = "{}"

\* C26 as stated: every call of run_sql that got its connection has
\* committed and closed it when it returns, on the failure paths too.
C26_Original ==
    tool.out.kind = "result" =>
        /\ tool.conn.opened <=> ~(tool.store.kind = "raise" /\ tool.store.at = "connect")
        /\ tool.conn.opened => (tool.conn.committed /\ tool.conn.closed)

\* what run_sql does with its connection: it commits and closes it exactly
\* when the store did the query without fault; after a failure of execute, of
\* fetchall or of commit the connection is returned from neither committed
\* nor closed.
ConnectionClosedOnSuccessOnly ==
    tool.out.kind = "result" =>
        /\ tool.conn.committed <=> tool.store.kind = "ok"
        /\ tool.conn.closed <=> tool.store.kind = "ok"
        /\ tool.store.kind = "ok" => tool.conn.opened

\* a failed query has left its connection open
ConnectionLeftOpen ==
    /\ tool.out.kind = "result"
    /\ tool.store.kind = "raise" /\ tool.store.at = "execute"
    /\ ~tool.out.result.error.isNone
    /\ tool.conn.opened /\ ~tool.conn.closed

\* C27 as stated: whenever Synthesize is about to run, or the run has ended,
\* with sql empty, rows, columns and tables_used are empty: no result of an
\* earlier attempt is carried across a repair.
C27_Original ==
    (pc \in {"synthesize", "END", "returned"} /\ state.sql = <<>>) =>
        /\ state.rows = <<>>
        /\ state.columns = <<>>
        /\ state.tables_used = {}

\* what does hold: in the first attempt, before any repair, an empty sql comes
\* with empty rows, columns and tables_used
FirstAttemptEmptySqlHasNoRows ==
    (pc \in {"synthesize", "END", "returned"} /\ state.sql = <<>> /\ Count("repair") = 0) =>
        /\ state.rows = <<>>
        /\ state.columns = <<>>
        /\ state.tables_used = {}

\* Synthesize is about to run after a repair with sql empty and the rows of
\* the attempt before
StaleRowsAtSynthesis ==
    /\ pc = "synthesize"
    /\ state.sql = <<>>
    /\ state.sql_result = [kind |-> "error", error |-> <<"Empty SQL.">>]
    /\ Count("repair") >= 1
    /\ state.rows # <<>>
    /\ state.tables_used # {}

====
